---- MODULE Spec2Model ----
(***************************************************************************)
(* Road Safety Analytics dashboards: src/app.py and src/milestone4.py.     *)
(* Each file is a Streamlit script: every user interaction re-runs it top  *)
(* to bottom for that browser session.  A run is modelled section by       *)
(* section (load, sidebar, filters, key metrics, visualization tabs);      *)
(* load_data is memoized process-wide by @st.cache_data.                   *)
(***************************************************************************)
EXTENDS Integers, Sequences, FiniteSets, TLC

VARIABLES
    variant,    \* which script the process serves: "app" or "milestone4"
    source,     \* the file on disk: [status, rows]
    sessions,   \* the browser sessions connected to the process
    singleFlight, \* whether the installed st.cache_data serialises cache misses
    cache,      \* st.cache_data store of load_data: <<>> or <<Dataset>>
    loadCount,  \* number of executions of the body of load_data
    pc,         \* per session: the section of the script the run is at
    runs,       \* per session: number of script runs started
    df,         \* per session: the script's df (value returned by load_data)
    sel,        \* per session: widget values of the run
    view,       \* per session: df_filtered, as the index labels it keeps
    metrics,    \* per session: what the KEY METRICS section displayed
    sample,     \* per session: marker_data / sample_map, as index labels
    ui,         \* per session: st.error / st.warning boxes shown by the run
    ran         \* per session: the sections that completed in the run

vars == <<variant, source, sessions, singleFlight, cache, loadCount, pc, runs, df, sel,
          view, metrics, sample, ui, ran>>

(***************************************************************************)
(* Bounds of the model.                                                    *)
(***************************************************************************)
MaxRows == 3       \* rows in the source file
MaxRuns == 2       \* script runs per session
SampleCap == 2     \* stands for the 1000 of df_filtered.sample(min(1000, ...))

(***************************************************************************)
(* Values.  NaN is the missing value of a text column, NumNaN of a numeric *)
(* column, NaT of a datetime column.                                       *)
(***************************************************************************)
NaN == "NaN"
NumNaN == 0 - 1
NaT == [date |-> "NaT", hour |-> NumNaN, day_name |-> NaN]

NumericCols == {"Severity", "Start_Lat", "Start_Lng", "End_Lat", "End_Lng", "Hour"}

\* isna() of one cell of column col.
IsNa(row, col) ==
    IF col \in NumericCols THEN row[col] = NumNaN
    ELSE row[col] = NaN

\* Python's order on the str values that occur (sorted(), Series.mode()).
StrOrder == <<"Albany", "Anaheim", "CA", "Fog", "Fresno", "NY", "Rain">>

StrRank(s) == CHOOSE i \in 1..Len(StrOrder) : StrOrder[i] = s

StrLess(a, b) == StrRank(a) < StrRank(b)

\* sorted(xs) for a collection of distinct str values.
Sorted(S) ==
    CHOOSE q \in [1..Cardinality(S) -> S] :
        /\ \A i, j \in 1..Cardinality(S) : i < j => StrLess(q[i], q[j])

Range(q) == {q[i] : i \in 1..Len(q)}

Min(a, b) == IF a <= b THEN a ELSE b

(***************************************************************************)
(* The source file: rows of US_Accidents_March23.csv.                      *)
(***************************************************************************)
CsvColumns ==
    {"Severity", "Start_Time", "End_Lat", "End_Lng", "Start_Lat", "Start_Lng",
     "Street", "City", "State", "Zipcode", "Weather_Condition"}

CsvRow(sev, time, lat, lng, street, city, state, zip, weather) ==
    [Severity |-> sev, Start_Time |-> time, End_Lat |-> NumNaN,
     End_Lng |-> NumNaN, Start_Lat |-> lat, Start_Lng |-> lng,
     Street |-> street, City |-> city, State |-> state, Zipcode |-> zip,
     Weather_Condition |-> weather]

\* The rows a source file is made of in the model.
RowPool ==
    { CsvRow(2, "2023-03-01 09:30:00", 36, 119, "CA-99", "Fresno", "CA", "93706", "Rain"),
      CsvRow(3, "2023-03-04 23:59:00", 33, 117, "I-5 N", "Anaheim", "CA", "92805", "Fog"),
      CsvRow(1, "not a time", 42, 73, "I-90 E", "Albany", "NY", "12205", "Rain"),
      CsvRow(4, "2023-03-01 00:15:00", 42, 73, NaN, "Albany", "NY", "12205", NaN),
      CsvRow(2, "2023-03-01 09:30:00", 36, 119, "CA-41", "Fresno", NaN, "93706", "Fog"),
      CsvRow(1, NaN, NumNaN, 117, "I-5 S", NaN, "CA", "92805", "Rain") }

RECURSIVE SeqsUpTo(_, _)
SeqsUpTo(S, n) ==
    IF n = 0 THEN {<<>>}
    ELSE LET shorter == SeqsUpTo(S, n - 1)
         IN  shorter \cup {Append(q, x) : q \in {p \in shorter : Len(p) = n - 1}, x \in S}

SourceFiles ==
    {[status |-> "missing", rows |-> <<>>], [status |-> "corrupt", rows |-> <<>>]}
        \cup {[status |-> "ok", rows |-> q] : q \in SeqsUpTo(RowPool, MaxRows)}

(***************************************************************************)
(* pandas helpers used by load_data.                                       *)
(***************************************************************************)
\* pd.read_csv(..., usecols=cols, nrows=n): the first n rows in file order,
\* restricted to cols, labelled 0, 1, 2, ... by the default RangeIndex.
ReadCsv(rows, cols, n) ==
    [i \in 1..Min(n, Len(rows)) |->
        [c \in cols \cup {"index"} |-> IF c = "index" THEN i - 1 ELSE rows[i][c]]]

RECURSIVE DropNa(_, _)
\* frame.dropna(subset=cols): drops a row when any cell of cols is missing.
DropNa(frame, cols) ==
    IF frame = <<>> THEN <<>>
    ELSE IF \E c \in cols : IsNa(Head(frame), c)
         THEN DropNa(Tail(frame), cols)
         ELSE <<Head(frame)>> \o DropNa(Tail(frame), cols)

\* pd.to_datetime(text, errors='coerce') of one cell: an unparsable or
\* missing text gives NaT.
ToDatetime(text) ==
    CASE text = "2023-03-01 00:15:00" ->
            [date |-> "2023-03-01", hour |-> 0, day_name |-> "Wednesday"]
      [] text = "2023-03-01 09:30:00" ->
            [date |-> "2023-03-01", hour |-> 9, day_name |-> "Wednesday"]
      [] text = "2023-03-04 23:59:00" ->
            [date |-> "2023-03-04", hour |-> 23, day_name |-> "Saturday"]
      [] OTHER -> NaT

\* Series.dt.hour, .dt.date and .dt.day_name() of one cell: missing on NaT.
DtHour(t) == IF t = NaT THEN NumNaN ELSE t.hour

DtDate(t) == IF t = NaT THEN NaN ELSE t.date

DtDayName(t) == IF t = NaT THEN NaN ELSE t.day_name

SetCol(row, col, v) == [c \in DOMAIN row \cup {col} |-> IF c = col THEN v ELSE row[c]]

(***************************************************************************)
(* load_data: the body that @st.cache_data wraps.  The result is           *)
(* [outcome, frame]: "ok" with the Dataset, "stop" when the body reported  *)
(* st.error and called st.stop(), "raise" when an exception left the body. *)
(***************************************************************************)
NRowsApp == 50000

NRowsM4 == 500000

ColsToUse ==
    {"Severity", "Start_Time", "Start_Lat", "Start_Lng", "City", "State",
     "Weather_Condition"}

DropSubsetApp == {"Street", "City", "Zipcode", "Start_Lat", "Start_Lng"}

DropSubsetM4 == {"City", "Start_Lat", "Start_Lng"}

\* src/app.py: df['Start_Time'], df['Hour'], df['Weekday'] of one row.
FeaturesApp(row) ==
    LET t == ToDatetime(row.Start_Time)
    IN  SetCol(SetCol(SetCol(row, "Start_Time", t), "Hour", DtHour(t)),
               "Weekday", DtDayName(t))

\* src/milestone4.py: df['Start_Time'], df['Hour'], df['Date'], df['Weekday'].
FeaturesM4(row) ==
    LET t == ToDatetime(row.Start_Time)
    IN  SetCol(SetCol(SetCol(SetCol(row, "Start_Time", t), "Hour", DtHour(t)),
                      "Date", DtDate(t)), "Weekday", DtDayName(t))

LoadDataApp(src) ==
    IF src.status # "ok" THEN [outcome |-> "raise", frame |-> <<>>]
    ELSE LET read == ReadCsv(src.rows, CsvColumns \ {"End_Lat", "End_Lng"}, NRowsApp)
             kept == DropNa(read, DropSubsetApp)
         IN  [outcome |-> "ok", frame |-> [i \in 1..Len(kept) |-> FeaturesApp(kept[i])]]

\* Faulty variant: a failed read is swallowed and an empty Dataset returned.
LoadDataM4Partial(src) ==
    IF src.status # "ok" THEN [outcome |-> "ok", frame |-> <<>>]
    ELSE LET read == ReadCsv(src.rows, ColsToUse, NRowsM4)
             kept == DropNa(read, DropSubsetM4)
         IN  [outcome |-> "ok", frame |-> [i \in 1..Len(kept) |-> FeaturesM4(kept[i])]]

\* The conversion of the text columns to the category dtype changes no value.
LoadDataM4(src) ==
    IF src.status # "ok" THEN [outcome |-> "stop", frame |-> <<>>]
    ELSE LET read == ReadCsv(src.rows, ColsToUse, NRowsM4)
             kept == DropNa(read, DropSubsetM4)
         IN  [outcome |-> "ok", frame |-> [i \in 1..Len(kept) |-> FeaturesM4(kept[i])]]

LoadData(v, src) == IF v = "app" THEN LoadDataApp(src) ELSE LoadDataM4(src)

(***************************************************************************)
(* pandas helpers used by the script sections.                             *)
(***************************************************************************)
\* Series.unique() as the collection of values present (NaN included).
Unique(frame, col) == {frame[i][col] : i \in 1..Len(frame)}

RECURSIVE MaskFrom(_, _, _)
MaskFrom(frame, mask, i) ==
    IF i > Len(frame) THEN <<>>
    ELSE IF mask[i] THEN <<frame[i]>> \o MaskFrom(frame, mask, i + 1)
    ELSE MaskFrom(frame, mask, i + 1)

\* frame[mask]: the rows of frame, in order, where the Boolean mask is True.
Mask(frame, mask) == MaskFrom(frame, mask, 1)

\* series == value on one cell: a missing cell equals nothing.
CellEq(cell, value) == cell # NaN /\ cell = value

\* Faulty variant: the upper bound of the hour range is exclusive.
HourBetweenExclusive(h, lo, hi) == h # NumNaN /\ h >= lo /\ h < hi

\* Faulty variant: a missing hour passes the hour range.
HourBetweenKeepsNaN(h, lo, hi) == h = NumNaN \/ (h >= lo /\ h <= hi)

\* (Hour >= lo) & (Hour <= hi) on one cell: comparisons with NaN are False.
HourBetween(h, lo, hi) == h # NumNaN /\ h >= lo /\ h <= hi

Count(frame, col, v) == Cardinality({i \in 1..Len(frame) : frame[i][col] = v})

FirstPos(frame, col, v) ==
    CHOOSE i \in 1..Len(frame) :
        frame[i][col] = v /\ \A j \in 1..(i - 1) : frame[j][col] # v

\* Faulty variant: the modes come in order of first occurrence instead of sorted.
ModeFirstSeen(frame, col) ==
    LET vals == Unique(frame, col) \ {NaN}
        top == {v \in vals : \A w \in vals : Count(frame, col, w) <= Count(frame, col, v)}
    IN  CHOOSE q \in [1..Cardinality(top) -> top] :
            \A i, j \in 1..Cardinality(top) :
                i < j => FirstPos(frame, col, q[i]) < FirstPos(frame, col, q[j])

\* Series.mode(): the most frequent non-missing values, in sorted order;
\* empty when the column has no non-missing value.
Mode(frame, col) ==
    LET vals == Unique(frame, col) \ {NaN}
        top == {v \in vals : \A w \in vals : Count(frame, col, w) <= Count(frame, col, v)}
    IN  Sorted(top)

RECURSIVE Sum(_, _)
Sum(frame, col) ==
    IF frame = <<>> THEN 0 ELSE Head(frame)[col] + Sum(Tail(frame), col)

\* Faulty variant: the rows are drawn with replacement.
SamplesWithReplacement(frame, n) ==
    {[i \in 1..n |-> frame[p[i]]] : p \in [1..n -> 1..Len(frame)]}

\* DataFrame.sample(n): n rows drawn without replacement, in any order.
Samples(frame, n) ==
    {[i \in 1..n |-> frame[p[i]]] :
        p \in {q \in [1..n -> 1..Len(frame)] : \A i, j \in 1..n : i # j => q[i] # q[j]}}

(***************************************************************************)
(* State of one script run.                                                *)
(***************************************************************************)
Unset == [selected_state |-> "unset"]

NoMetrics == [shown |-> {}]

\* Stops of the hour slider that the model tries (the slider ranges 0..23
\* and returns its two handles in order).
HourStops == {0, 9, 23}

Ended(s) == pc[s] \in {"idle", "done", "stopped", "raised"}

\* A user interaction (or the first page load) starts a run of the script.
Rerun(s) ==
    /\ Ended(s)
    /\ runs[s] < MaxRuns
    /\ runs' = [runs EXCEPT ![s] = @ + 1]
    /\ pc' = [pc EXCEPT ![s] = "load"]
    /\ df' = [df EXCEPT ![s] = <<>>]
    /\ sel' = [sel EXCEPT ![s] = Unset]
    /\ view' = [view EXCEPT ![s] = <<>>]
    /\ metrics' = [metrics EXCEPT ![s] = NoMetrics]
    /\ sample' = [sample EXCEPT ![s] = <<>>]
    /\ ui' = [ui EXCEPT ![s] = {}]
    /\ ran' = [ran EXCEPT ![s] = {}]
    /\ UNCHANGED <<variant, source, sessions, singleFlight, cache, loadCount>>

\* What follows `df = load_data()` once it returned: app.py shows st.success.
Loaded(s, frame) ==
    /\ df' = [df EXCEPT ![s] = frame]
    /\ pc' = [pc EXCEPT ![s] = "sidebar"]
    /\ ran' = [ran EXCEPT ![s] = @ \cup {"load"}]
    /\ ui' = [ui EXCEPT ![s] = IF variant = "app" THEN @ \cup {"success"} ELSE @]

\* The call load_data() reaches the memoizing wrapper: a hit returns the
\* stored Dataset; a miss goes on to execute the body.  When the wrapper
\* serialises misses, a miss waits while another session executes the body.
LoadLookup(s) ==
    /\ pc[s] = "load"
    /\ IF cache # <<>>
       THEN Loaded(s, cache[1])
       ELSE /\ singleFlight => \A t \in sessions : pc[t] # "ingest"
            /\ pc' = [pc EXCEPT ![s] = "ingest"]
            /\ UNCHANGED <<df, ran, ui>>
    /\ UNCHANGED <<variant, source, sessions, singleFlight, cache, loadCount,
                   runs, sel, view, metrics, sample>>

\* The body of load_data executes; its value is stored and returned.  A body
\* that stops the run or raises returns nothing, so nothing is stored.
LoadExecute(s) ==
    /\ pc[s] = "ingest"
    /\ loadCount' = loadCount + 1
    /\ LET r == LoadData(variant, source)
       IN  CASE r.outcome = "ok" ->
                    /\ cache' = <<r.frame>>
                    /\ Loaded(s, r.frame)
             [] r.outcome = "stop" ->
                    /\ ui' = [ui EXCEPT ![s] = @ \cup {"error"}]
                    /\ pc' = [pc EXCEPT ![s] = "stopped"]
                    /\ UNCHANGED <<cache, df, ran>>
             [] r.outcome = "raise" ->
                    /\ pc' = [pc EXCEPT ![s] = "raised"]
                    /\ UNCHANGED <<cache, df, ran, ui>>
    /\ UNCHANGED <<variant, source, sessions, singleFlight, runs, sel, view,
                   metrics, sample>>

(***************************************************************************)
(* SIDEBAR: the option lists and the widget values of the run.             *)
(***************************************************************************)
\* sorted(df['State'].unique()) raises TypeError when it has to compare a
\* str with the float NaN, that is when both occur.
StateListRaises(frame) ==
    LET vals == Unique(frame, "State") IN NaN \in vals /\ vals # {NaN}

\* state_list = sorted(df['State'].unique()), when it does not raise (a
\* lone NaN needs no comparison).
state_list(frame) == Sorted(Unique(frame, "State"))

\* Faulty variant: the locality options ignore the selected region.
city_listAllStates(frame, selected_state) == Sorted(Unique(frame, "City"))

\* city_list = sorted(df[df['State'] == selected_state]['City'].unique())
city_list(frame, selected_state) ==
    Sorted(Unique(Mask(frame, [i \in DOMAIN frame |->
                                CellEq(frame[i].State, selected_state)]),
                  "City"))

\* weather_options = df['Weather_Condition'].dropna().unique().tolist()
weather_options(frame) == Unique(frame, "Weather_Condition") \ {NaN}

SidebarApp(s) ==
    /\ variant = "app"
    /\ pc[s] = "sidebar"
    /\ IF StateListRaises(df[s])
       THEN /\ pc' = [pc EXCEPT ![s] = "raised"]
            /\ UNCHANGED <<sel, ran>>
       ELSE /\ \E st \in {"All"} \cup Range(state_list(df[s])) :
                    sel' = [sel EXCEPT ![s] = [selected_state |-> st]]
            /\ pc' = [pc EXCEPT ![s] = "filter"]
            /\ ran' = [ran EXCEPT ![s] = @ \cup {"sidebar"}]
    /\ UNCHANGED <<variant, source, sessions, singleFlight, cache, loadCount,
                   runs, df, view, metrics, sample, ui>>

SidebarM4(s) ==
    /\ variant = "milestone4"
    /\ pc[s] = "sidebar"
    /\ IF StateListRaises(df[s])
       THEN /\ pc' = [pc EXCEPT ![s] = "raised"]
            /\ UNCHANGED <<sel, ran>>
       ELSE /\ \E st \in {"All"} \cup Range(state_list(df[s])) :
               \E city \in (IF st # "All"
                            THEN SUBSET Range(city_list(df[s], st))
                            ELSE {{}}) :
               \E lo \in HourStops, hi \in HourStops :
               \E weather \in SUBSET weather_options(df[s]) :
                    /\ lo <= hi
                    /\ sel' = [sel EXCEPT ![s] =
                                [selected_state |-> st, selected_city |-> city,
                                 min_hour |-> lo, max_hour |-> hi,
                                 selected_weather |-> weather]]
            /\ pc' = [pc EXCEPT ![s] = "filter"]
            /\ ran' = [ran EXCEPT ![s] = @ \cup {"sidebar"}]
    /\ UNCHANGED <<variant, source, sessions, singleFlight, cache, loadCount,
                   runs, df, view, metrics, sample, ui>>

(***************************************************************************)
(* APPLY FILTERS                                                           *)
(***************************************************************************)
\* src/app.py: the State filter only.
FilterApp(frame, c) ==
    IF c.selected_state # "All"
    THEN Mask(frame, [i \in DOMAIN frame |-> CellEq(frame[i].State, c.selected_state)])
    ELSE frame

\* src/milestone4.py: State, then City, then Hour, then Weather_Condition.
FilterM4(frame, c) ==
    LET f1 == IF c.selected_state # "All"
              THEN Mask(frame, [i \in DOMAIN frame |->
                                    CellEq(frame[i].State, c.selected_state)])
              ELSE frame
        f2 == IF c.selected_city # {}
              THEN Mask(f1, [i \in DOMAIN f1 |-> f1[i].City \in c.selected_city])
              ELSE f1
        f3 == Mask(f2, [i \in DOMAIN f2 |->
                            HourBetween(f2[i].Hour, c.min_hour, c.max_hour)])
    IN  IF c.selected_weather # {}
        THEN Mask(f3, [i \in DOMAIN f3 |->
                            f3[i].Weather_Condition \in c.selected_weather])
        ELSE f3

ApplyFilters(s) ==
    /\ pc[s] = "filter"
    /\ view' = [view EXCEPT ![s] =
                    IF variant = "app" THEN FilterApp(df[s], sel[s])
                    ELSE FilterM4(df[s], sel[s])]
    /\ pc' = [pc EXCEPT ![s] = "metrics"]
    /\ ran' = [ran EXCEPT ![s] = @ \cup {"filter"}]
    /\ UNCHANGED <<variant, source, sessions, singleFlight, cache, loadCount,
                   runs, df, sel, metrics, sample, ui>>

(***************************************************************************)
(* KEY METRICS                                                             *)
(***************************************************************************)
\* The values of the metrics shown, by label; mean as <<sum, count>>.
MetricsOf(frame, withWeather) ==
    [shown |-> {"Total Accidents", "Most Frequent City", "Avg Severity"}
                \cup (IF withWeather THEN {"Top Weather"} ELSE {}),
     total |-> Len(frame),
     city |-> Mode(frame, "City")[1],
     avg |-> <<Sum(frame, "Severity"), Len(frame)>>,
     weather |-> IF withWeather THEN Mode(frame, "Weather_Condition")[1] ELSE NaN]

TotalOnly(frame) == [shown |-> {"Total Accidents"}, total |-> Len(frame)]

\* src/app.py: no emptiness test; Series.mode()[0] of an empty column raises
\* KeyError.
KeyMetricsApp(s) ==
    /\ variant = "app"
    /\ pc[s] = "metrics"
    /\ IF Mode(view[s], "City") = <<>>
       THEN /\ metrics' = [metrics EXCEPT ![s] = TotalOnly(view[s])]
            /\ pc' = [pc EXCEPT ![s] = "raised"]
            /\ UNCHANGED ran
       ELSE /\ metrics' = [metrics EXCEPT ![s] = MetricsOf(view[s], FALSE)]
            /\ pc' = [pc EXCEPT ![s] = "tabs"]
            /\ ran' = [ran EXCEPT ![s] = @ \cup {"metrics"}]
    /\ UNCHANGED <<variant, source, sessions, singleFlight, cache, loadCount,
                   runs, df, sel, view, sample, ui>>

\* src/milestone4.py: an empty df_filtered gets st.warning and st.stop().
KeyMetricsM4(s) ==
    /\ variant = "milestone4"
    /\ pc[s] = "metrics"
    /\ IF view[s] # <<>>
       THEN /\ metrics' = [metrics EXCEPT ![s] =
                    MetricsOf(view[s], Mode(view[s], "Weather_Condition") # <<>>)]
            /\ pc' = [pc EXCEPT ![s] = "tabs"]
            /\ ran' = [ran EXCEPT ![s] = @ \cup {"metrics"}]
            /\ UNCHANGED ui
       ELSE /\ metrics' = [metrics EXCEPT ![s] = TotalOnly(view[s])]
            /\ ui' = [ui EXCEPT ![s] = @ \cup {"no_match_warning"}]
            /\ pc' = [pc EXCEPT ![s] = "stopped"]
            /\ UNCHANGED ran
    /\ UNCHANGED <<variant, source, sessions, singleFlight, cache, loadCount,
                   runs, df, sel, view, sample>>

(***************************************************************************)
(* VISUALIZATION TABS: the map tab draws the sample, the chart tabs draw   *)
(* and change no state, the raw-data tab shows df_filtered.head(100) and   *)
(* ends the script.                                                        *)
(***************************************************************************)
Tabs(s) ==
    /\ pc[s] = "tabs"
    /\ IF view[s] # <<>>
       THEN /\ \E m \in Samples(view[s], Min(SampleCap, Len(view[s]))) :
                    sample' = [sample EXCEPT ![s] = m]
            /\ UNCHANGED ui
       ELSE /\ ui' = [ui EXCEPT ![s] =
                        IF variant = "app" THEN @ \cup {"no_data_warning"} ELSE @]
            /\ UNCHANGED sample
    /\ pc' = [pc EXCEPT ![s] = "done"]
    /\ ran' = [ran EXCEPT ![s] = @ \cup {"map", "data"}]
    /\ UNCHANGED <<variant, source, sessions, singleFlight, cache, loadCount,
                   runs, df, sel, view, metrics>>

(***************************************************************************)
(* Specifications                                                          *)
(***************************************************************************)
Start(procs) ==
    /\ sessions = procs
    /\ cache = <<>>
    /\ loadCount = 0
    /\ pc = [s \in procs |-> "idle"]
    /\ runs = [s \in procs |-> 0]
    /\ df = [s \in procs |-> <<>>]
    /\ sel = [s \in procs |-> Unset]
    /\ view = [s \in procs |-> <<>>]
    /\ metrics = [s \in procs |-> NoMetrics]
    /\ sample = [s \in procs |-> <<>>]
    /\ ui = [s \in procs |-> {}]
    /\ ran = [s \in procs |-> {}]

\* One session over every source file of the bounds.
Init ==
    /\ variant \in {"app", "milestone4"}
    /\ source \in SourceFiles
    /\ singleFlight = FALSE
    /\ Start({1})

\* Two sessions over a small choice of source files.
RaceFiles ==
    {f \in SourceFiles : Len(f.rows) <= 1 /\ \A i \in 1..Len(f.rows) : f.rows[i].City = "Fresno"}

InitRace ==
    /\ variant \in {"app", "milestone4"}
    /\ source \in RaceFiles
    /\ singleFlight \in BOOLEAN
    /\ Start({1, 2})

Next ==
    \/ \E s \in sessions : Rerun(s)
    \/ \E s \in sessions : LoadLookup(s)
    \/ \E s \in sessions : LoadExecute(s)
    \/ \E s \in sessions : SidebarApp(s)
    \/ \E s \in sessions : SidebarM4(s)
    \/ \E s \in sessions : ApplyFilters(s)
    \/ \E s \in sessions : KeyMetricsApp(s)
    \/ \E s \in sessions : KeyMetricsM4(s)
    \/ \E s \in sessions : Tabs(s)

Spec == Init /\ [][Next]_vars

\* The APPLY FILTERS section of milestone4.py as a function of its inputs:
\* any Dataset load_data returns and any widget values, the two hours in
\* either order.
FilterInputs(frame) ==
    [selected_state : {"All"} \cup (Unique(frame, "State") \ {NaN}),
     selected_city : SUBSET Unique(frame, "City"),
     min_hour : HourStops, max_hour : HourStops,
     selected_weather : SUBSET weather_options(frame)]

InitFilter ==
    /\ variant = "milestone4"
    /\ source \in {f \in SourceFiles : f.status = "ok" /\ Len(f.rows) <= 2}
    /\ singleFlight = FALSE
    /\ sessions = {1}
    /\ cache = <<LoadData(variant, source).frame>>
    /\ loadCount = 1
    /\ pc = [s \in {1} |-> "filter"]
    /\ runs = [s \in {1} |-> 1]
    /\ df = [s \in {1} |-> cache[1]]
    /\ sel \in [{1} -> FilterInputs(cache[1])]
    /\ view = [s \in {1} |-> <<>>]
    /\ metrics = [s \in {1} |-> NoMetrics]
    /\ sample = [s \in {1} |-> <<>>]
    /\ ui = [s \in {1} |-> {}]
    /\ ran = [s \in {1} |-> {"load", "sidebar"}]

NextFilter ==
    \/ \E s \in sessions : ApplyFilters(s)
    \/ \E s \in sessions : KeyMetricsM4(s)

SpecFilter == InitFilter /\ [][NextFilter]_vars

SpecRace == InitRace /\ [][Next]_vars

(***************************************************************************)
(* Properties                                                              *)
(***************************************************************************)
Rows(frame) == {frame[i] : i \in 1..Len(frame)}

Labels(frame) == {frame[i].index : i \in 1..Len(frame)}

\* No row is fabricated and none is repeated.
SubFrame(sub, frame) ==
    /\ Rows(sub) \subseteq Rows(frame)
    /\ Cardinality(Labels(sub)) = Len(sub)

\* The four predicates of a FilterCriteria c on one Record.
RegionOk(row, c) ==
    c.selected_state = "All" \/ (row.State # NaN /\ row.State = c.selected_state)

LocalityOk(row, c) == c.selected_city = {} \/ row.City \in c.selected_city

HourOk(row, c) ==
    row.Hour # NumNaN /\ c.min_hour <= row.Hour /\ row.Hour <= c.max_hour

WeatherOk(row, c) ==
    c.selected_weather = {} \/ row.Weather_Condition \in c.selected_weather

\* app.py has the region widget only: its criteria restrict nothing else.
CriteriaOf(s) ==
    IF variant = "app"
    THEN [selected_state |-> sel[s].selected_state, selected_city |-> {},
          min_hour |-> 0, max_hour |-> 23, selected_weather |-> {}]
    ELSE sel[s]

\* C1 as stated: in both dashboards the filter step returns a subset of the
\* Dataset, and a Record is in it exactly when region equals the selected
\* one (or 'All'), locality is in the set (or the set is empty), hour is
\* non-null within the inclusive range, and weather is in the set (or empty).
C1_AsStated ==
    \A s \in sessions : "filter" \in ran[s] =>
        /\ SubFrame(view[s], df[s])
        /\ \A row \in Rows(df[s]) :
            row \in Rows(view[s]) <=>
                /\ CriteriaOf(s).selected_state = "All"
                        \/ row.State = CriteriaOf(s).selected_state
                /\ LocalityOk(row, CriteriaOf(s))
                /\ HourOk(row, CriteriaOf(s))
                /\ WeatherOk(row, CriteriaOf(s))

\* C1 amended: the filter step returns a subset of the Dataset with no row
\* fabricated or repeated; in milestone4.py a Record is in the result exactly
\* when its region is present and equals the selected one (or 'All' is
\* selected), its locality is in the set (or the set is empty), its hour is
\* non-null within the inclusive range and its weather is in the set (or the
\* set is empty); in app.py, which has the region criterion only, exactly
\* when the region predicate holds, whatever its hour.
C1_FilterExact ==
    \A s \in sessions : "filter" \in ran[s] =>
        /\ SubFrame(view[s], df[s])
        /\ \A row \in Rows(df[s]) :
            row \in Rows(view[s]) <=>
                IF variant = "app" THEN RegionOk(row, sel[s])
                ELSE /\ RegionOk(row, sel[s])
                     /\ LocalityOk(row, sel[s])
                     /\ HourOk(row, sel[s])
                     /\ WeatherOk(row, sel[s])

\* All four criteria restrict, and they keep some Records and drop others.
C1_Witness ==
    \E s \in sessions :
        /\ variant = "milestone4"
        /\ "filter" \in ran[s]
        /\ sel[s].selected_state # "All"
        /\ sel[s].selected_city # {}
        /\ sel[s].selected_weather # {}
        /\ sel[s].min_hour > 0
        /\ view[s] # <<>>
        /\ Len(view[s]) < Len(df[s])

Unparsable == {"not a time", NaN}

\* The index labels of the source rows whose Start_Time cannot be parsed
\* and that have every field load_data requires.
PoisonedLabels ==
    {i - 1 : i \in {j \in 1..Len(source.rows) :
        /\ source.rows[j].Start_Time \in Unparsable
        /\ \A c \in (IF variant = "app" THEN DropSubsetApp ELSE DropSubsetM4) :
                ~IsNa(source.rows[j], c)}}

\* C2: a Record whose start_time cannot be parsed is retained by ingestion
\* with hour and weekday (and, where the column exists, date) null, and no
\* hour_range, the full range [0,23] included, lets it into the FilteredView.
C2_UnparsableTime ==
    \A s \in sessions : "load" \in ran[s] =>
        /\ \A l \in PoisonedLabels : \E row \in Rows(df[s]) :
                /\ row.index = l
                /\ row.Start_Time = NaT
                /\ row.Hour = NumNaN
                /\ row.Weekday = NaN
                /\ variant = "milestone4" => row.Date = NaN
        /\ (variant = "milestone4" /\ "filter" \in ran[s]) =>
                \A row \in Rows(view[s]) : row.index \notin PoisonedLabels

\* The full range is selected with no other restriction, the Dataset holds a
\* Record with an unparsable time and the view is not empty.
C2_Witness ==
    \E s \in sessions :
        /\ variant = "milestone4"
        /\ "filter" \in ran[s]
        /\ sel[s].min_hour = 0 /\ sel[s].max_hour = 23
        /\ sel[s].selected_state = "All"
        /\ sel[s].selected_weather = {}
        /\ PoisonedLabels # {}
        /\ view[s] # <<>>

\* C3: the map sample has exactly min(cap, |V|) Records, each an element of
\* the FilteredView V, none of them twice; for an empty V there is no sample
\* and the map section reports no error.
C3_SampleBounds ==
    \A s \in sessions :
        /\ "map" \in ran[s] =>
            /\ Len(sample[s]) = Min(SampleCap, Len(view[s]))
            /\ SubFrame(sample[s], view[s])
            /\ pc[s] = "done"
        /\ view[s] = <<>> => sample[s] = <<>>

\* The view is larger than the cap and the sample is cut to the cap.
C3_Witness ==
    \E s \in sessions :
        /\ "map" \in ran[s]
        /\ Len(view[s]) > SampleCap
        /\ Len(sample[s]) = SampleCap

\* C4 as stated: once the metrics step has acted on an empty FilteredView,
\* the run shows the empty signal, has raised nothing and displays no mode
\* or mean, in both dashboards.
C4_AsStated ==
    \A s \in sessions :
        ("filter" \in ran[s] /\ view[s] = <<>> /\ pc[s] # "metrics") =>
            /\ pc[s] # "raised"
            /\ ui[s] \cap {"no_match_warning", "no_data_warning"} # {}
            /\ metrics[s].shown \subseteq {"Total Accidents"}

\* C5 as stated: over any sequence or interleaving of load requests the body
\* of load_data executes at most once.
C5_AsStated == loadCount <= 1

\* C6 as stated: every Record of a Dataset returned by load_data has
\* non-null start_lat, start_lng, locality and region.
C6_AsStated ==
    \A s \in sessions : \A row \in Rows(df[s]) :
        /\ row.Start_Lat # NumNaN
        /\ row.Start_Lng # NumNaN
        /\ row.City # NaN
        /\ row.State # NaN

RECURSIVE SumRuns(_)
SumRuns(S) ==
    IF S = {} THEN 0 ELSE LET s == CHOOSE x \in S : TRUE IN runs[s] + SumRuns(S \ {s})

\* C7: when the source is missing or unreadable, no Dataset is returned or
\* cached, the run that met the failure ends with the error handed to the
\* user interface (st.error then st.stop() in milestone4.py, the exception
\* itself in app.py), no later section of that run executes, other runs
\* still start, and the body of load_data executes at most once per run.
C7_IngestionFailure ==
    source.status # "ok" =>
        /\ cache = <<>>
        /\ loadCount <= SumRuns(sessions)
        /\ \A s \in sessions :
            /\ df[s] = <<>> /\ view[s] = <<>> /\ sample[s] = <<>>
            /\ ran[s] = {}
            /\ metrics[s] = NoMetrics
            /\ pc[s] \in {"idle", "load", "ingest", "stopped", "raised"}
            /\ pc[s] = "stopped" => (variant = "milestone4" /\ ui[s] = {"error"})
            /\ pc[s] = "raised" => variant = "app"
            /\ (Ended(s) /\ runs[s] < MaxRuns) => ENABLED Rerun(s)

\* Two runs met the failure, each executed the body once, and one session has
\* started again after its failed run.
C7_Witness ==
    /\ source.status = "missing"
    /\ loadCount = 2
    /\ \E s \in sessions : pc[s] \in {"stopped", "raised"}
    /\ \E s \in sessions : runs[s] = 2

\* C8: for a selected region r other than 'All', the locality options are
\* localities of Records whose region is r, and every selected locality is
\* one of them.
C8_DependentLocalities ==
    \A s \in sessions :
        (variant = "milestone4" /\ "load" \in ran[s] /\ ~StateListRaises(df[s])) =>
            /\ \A r \in Range(state_list(df[s])) :
               \A c \in Range(city_list(df[s], r)) :
                    \E row \in Rows(df[s]) : row.State = r /\ row.City = c
            /\ ("sidebar" \in ran[s] /\ sel[s].selected_state # "All") =>
                    \A c \in sel[s].selected_city :
                        \E row \in Rows(df[s]) :
                            row.State = sel[s].selected_state /\ row.City = c
            /\ ("sidebar" \in ran[s] /\ sel[s].selected_state = "All") =>
                    sel[s].selected_city = {}

\* A locality is selected while the Dataset also holds a locality that
\* occurs only in another region.
C8_Witness ==
    \E s \in sessions :
        /\ variant = "milestone4"
        /\ "sidebar" \in ran[s]
        /\ sel[s].selected_state # "All"
        /\ sel[s].selected_city # {}
        /\ \E row \in Rows(df[s]) :
                row.City \notin Range(city_list(df[s], sel[s].selected_state))

MostFrequent(frame, col) ==
    LET vals == Unique(frame, col) \ {NaN}
    IN  {v \in vals : \A w \in vals : Count(frame, col, w) <= Count(frame, col, v)}

FirstSeen(frame, col, T) ==
    CHOOSE v \in T : \A w \in T : FirstPos(frame, col, v) <= FirstPos(frame, col, w)

Smallest(T) == CHOOSE v \in T : \A w \in T : v = w \/ StrLess(v, w)

\* C10 as stated: the modal locality (and modal weather) reported for a
\* non-empty view has maximal frequency, and among tied values it is the one
\* whose first occurrence comes earliest in source order.
C10_AsStated ==
    \A s \in sessions : "metrics" \in ran[s] =>
        /\ metrics[s].city = FirstSeen(view[s], "City", MostFrequent(view[s], "City"))
        /\ "Top Weather" \in metrics[s].shown =>
                metrics[s].weather =
                    FirstSeen(view[s], "Weather_Condition",
                              MostFrequent(view[s], "Weather_Condition"))

\* C10 amended: the modal locality (and modal weather) reported for a
\* non-empty view has maximal frequency, and among tied values it is the
\* smallest in sorted (string) order, wherever it first occurs.
C10_ModeSmallest ==
    \A s \in sessions : "metrics" \in ran[s] =>
        /\ metrics[s].city \in MostFrequent(view[s], "City")
        /\ metrics[s].city = Smallest(MostFrequent(view[s], "City"))
        /\ "Top Weather" \in metrics[s].shown =>
                /\ metrics[s].weather \in MostFrequent(view[s], "Weather_Condition")
                /\ metrics[s].weather = Smallest(MostFrequent(view[s], "Weather_Condition"))
        /\ (variant = "milestone4" /\ "Top Weather" \notin metrics[s].shown) =>
                MostFrequent(view[s], "Weather_Condition") = {}

\* Two localities tie and the one reported is not the first in source order.
C10_Witness ==
    \E s \in sessions :
        /\ "metrics" \in ran[s]
        /\ Cardinality(MostFrequent(view[s], "City")) > 1
        /\ metrics[s].city # view[s][1].City
        /\ metrics[s].city = Smallest(MostFrequent(view[s], "City"))

====
